---------------------------- MODULE Spec2Model ----------------------------
(***************************************************************************)
(* A model of the FizzBuzz rule engine (fizzbuzz_core.py): the primality   *)
(* test, the Fibonacci-set generator, the single-number evaluator with its *)
(* classification, and the batch driver with its progress callback.        *)
(*                                                                         *)
(* and of the application that drives it (fizzbuzz_gui.py): the rule list  *)
(* of the window and its operations, the worker thread of a generation and *)
(* the callbacks it queues for the UI thread.                              *)
(*                                                                         *)
(* The specifications share the variables:                                 *)
(*   Spec      calls process_number on a caller-owned rule list;           *)
(*   LeafSpec  calls is_prime and generate_fibonacci_set;                  *)
(*   BatchSpec runs generate_fizzbuzz_batch one loop iteration at a time;  *)
(*   RerunSpec runs it twice on one rule list;                             *)
(*   GuiSpec   interleaves the UI thread and the worker thread.            *)
(***************************************************************************)
EXTENDS Integers, Sequences, FiniteSets, TLC

VARIABLES
    blocks,          \* the caller's rule list (a sequence of RuleBlock records)
    call,            \* the last call of a pure function: its name, arguments, return
    pc,              \* generate_fizzbuzz_batch: "idle", "loop", "returned", "raised"
    b_start,         \* generate_fizzbuzz_batch: parameter start
    b_end,           \* generate_fizzbuzz_batch: parameter end
    has_callback,    \* generate_fizzbuzz_batch: whether progress_callback was given
    fibonacci_set,   \* generate_fizzbuzz_batch: local fibonacci_set
    i,               \* generate_fizzbuzz_batch: iterations of the loop completed
    results,         \* generate_fizzbuzz_batch: local results
    progress_calls,  \* the calls of progress_callback, in order
    returned,        \* what the batch call returned (<<>> until it has)
    error,           \* the exception a batch call raised ("none" when none)
    heap,            \* GUI: the RuleBlock objects ever created, by address
    self_blocks,     \* GUI: self.blocks, the addresses in the list it refers to
    arg_blocks,      \* worker: the addresses in the list given to the batch
    aliased,         \* whether that list is the list self.blocks refers to
    is_generating,   \* GUI: self.is_generating
    generate_btn,    \* GUI: state of self.generate_btn, "normal" or "disabled"
    progress_var,    \* GUI: self.progress_var, a fraction num / den
    results_text,    \* GUI: the lines of self.results_text
    heatmap,         \* GUI: the data of the heatmap shown (<<>> when cleared)
    last_error,      \* GUI: the message of the last error dialog ("" when none)
    after_queue,     \* the callbacks queued with root.after, oldest first
    wpc,             \* worker: position in generate_worker ("none": no thread)
    w_start,         \* worker: parameter start
    w_end,           \* worker: parameter end
    w_converted,     \* worker: the results converted and queued for display
    threads,         \* the worker threads started and not ended
    ops              \* GUI: the operations of the user the window has acted on

callVars  == <<call>>
batchVars == <<pc, b_start, b_end, has_callback, fibonacci_set, i, results,
               progress_calls, returned, error>>
guiVars   == <<heap, self_blocks, arg_blocks, aliased, is_generating,
               generate_btn, progress_var, results_text, heatmap, last_error,
               after_queue, wpc, w_start, w_end, w_converted, threads, ops>>
vars      == <<blocks, call, pc, b_start, b_end, has_callback, fibonacci_set, i,
               results, progress_calls, returned, error, heap, self_blocks,
               arg_blocks, aliased, is_generating, generate_btn, progress_var,
               results_text, heatmap, last_error, after_queue, wpc, w_start,
               w_end, w_converted, threads, ops>>

-----------------------------------------------------------------------------
(* Bounds of the model *)

\* the largest number handed to process_number
MaxN == 16
\* the longest rule list handed to process_number
MaxRules == 3
\* the largest argument of is_prime
MaxPrimeArg == 100
\* the largest argument of generate_fibonacci_set
MaxFibArg == 40
\* the largest start and end of a batch call
MaxStart == 2
MaxEnd == 101

-----------------------------------------------------------------------------
(* Python's arithmetic and strings *)

\* a % b with Python's sign convention (the result has the sign of b)
PyMod(a, b) == IF b > 0 THEN a % b ELSE 0 - ((0 - a) % (0 - b))

\* int(math.sqrt(n)) for n >= 0
IntSqrt(n) == CHOOSE r \in 0..n : r * r <= n /\ (r + 1) * (r + 1) > n

Digit(d) ==
    CASE d = 0 -> "0" [] d = 1 -> "1" [] d = 2 -> "2" [] d = 3 -> "3"
      [] d = 4 -> "4" [] d = 5 -> "5" [] d = 6 -> "6" [] d = 7 -> "7"
      [] d = 8 -> "8" [] d = 9 -> "9"

RECURSIVE StrNat(_)
StrNat(n) == IF n < 10 THEN Digit(n) ELSE StrNat(n \div 10) \o Digit(n % 10)

\* a mutant of Str: the number without its last digit when it has several
StrWithoutLastDigit(n) == IF n >= 10 THEN StrNat(n \div 10) ELSE StrNat(n)

\* str(number)
Str(n) == IF n < 0 THEN "-" \o StrNat(0 - n) ELSE StrNat(n)

\* ''.join(parts)
RECURSIVE Join(_)
Join(parts) == IF parts = <<>> THEN "" ELSE Head(parts) \o Join(Tail(parts))

-----------------------------------------------------------------------------
(* is_prime *)

\* for i in range(3, stop, 2): if n % i == 0: return False / return True
RECURSIVE OddDivisorLoop(_, _, _)
OddDivisorLoop(n, d, stop) ==
    IF d >= stop THEN TRUE
    ELSE IF PyMod(n, d) = 0 THEN FALSE
    ELSE OddDivisorLoop(n, d + 2, stop)

\* a mutant of is_prime: the loop stops before floor(sqrt(n))
is_prime_short_loop(n) ==
    IF n < 2 THEN FALSE
    ELSE IF n = 2 THEN TRUE
    ELSE IF PyMod(n, 2) = 0 THEN FALSE
    ELSE OddDivisorLoop(n, 3, IntSqrt(n))

is_prime(n) ==
    IF n < 2 THEN FALSE
    ELSE IF n = 2 THEN TRUE
    ELSE IF PyMod(n, 2) = 0 THEN FALSE
    ELSE OddDivisorLoop(n, 3, IntSqrt(n) + 1)

-----------------------------------------------------------------------------
(* generate_fibonacci_set *)

\* a mutant of FibLoop: while b < max_value
RECURSIVE FibLoopBelow(_, _, _, _)
FibLoopBelow(fib, a, b, max_value) ==
    IF b < max_value THEN FibLoopBelow(fib \cup {b}, b, a + b, max_value)
    ELSE fib

\* while b <= max_value: fibonacci_set.add(b); a, b = b, a + b
RECURSIVE FibLoop(_, _, _, _)
FibLoop(fib, a, b, max_value) ==
    IF b <= max_value THEN FibLoop(fib \cup {b}, b, a + b, max_value)
    ELSE fib

generate_fibonacci_set(max_value) ==
    IF max_value < 1 THEN {} ELSE FibLoop({1}, 1, 1, max_value)

-----------------------------------------------------------------------------
(* RuleBlock and process_number *)

\* BlockType
DIVISOR   == "divisor"
PRIME     == "prime"
FIBONACCI == "fibonacci"
RANGE     == "range"

\* RuleBlock(id, block_type, name, properties, order); properties is a dict,
\* here a function from its keys
RuleBlock(id, block_type, name, properties, order) ==
    [id |-> id, block_type |-> block_type, name |-> name,
     properties |-> properties, order |-> order]

\* what evaluating an expression over a dict can raise
Exceptions == {"KeyError", "ZeroDivisionError"}

\* a mutant of InsertByOrder: a sort that is not stable (a block goes before
\* the blocks of its own order)
RECURSIVE InsertBeforeEqual(_, _)
InsertBeforeEqual(sorted, b) ==
    IF sorted = <<>> THEN <<b>>
    ELSE IF Head(sorted).order < b.order
         THEN <<Head(sorted)>> \o InsertBeforeEqual(Tail(sorted), b)
         ELSE <<b>> \o sorted

\* sorted() is stable: a block goes behind every block whose order is not
\* greater than its own
RECURSIVE InsertByOrder(_, _)
InsertByOrder(sorted, b) ==
    IF sorted = <<>> THEN <<b>>
    ELSE IF Head(sorted).order <= b.order
         THEN <<Head(sorted)>> \o InsertByOrder(Tail(sorted), b)
         ELSE <<b>> \o sorted

\* a mutant of SortedByOrder: the loop runs over blocks as they are listed
ListOrder(bs) == bs

\* sorted(blocks, key=lambda b: b.order): a new list, blocks is not changed
RECURSIVE SortedByOrder(_)
SortedByOrder(bs) ==
    IF bs = <<>> THEN <<>>
    ELSE InsertByOrder(SortedByOrder(SubSeq(bs, 1, Len(bs) - 1)), bs[Len(bs)])

\* mutant of BlocksAfterProcessNumber: blocks.sort(key=...), which sorts the
\* caller's list itself
BlocksSortedInPlace(bs) == SortedByOrder(bs)

\* the caller's list when process_number is done with it: sorted() has copied
\* it, the loop reads the copy and reads the fields of the rules, and
\* matching_blocks.append writes to a list of the call's own
BlocksAfterProcessNumber(bs) == bs

\* a mutant of BlockMatches: the range test leaves out its end (n < end)
BlockMatchesHalfOpen(number, block, fib) ==
    LET props == block.properties IN
    IF block.block_type = DIVISOR
    THEN IF PyMod(number, props.divisor) = 0 THEN "match" ELSE "nomatch"
    ELSE IF block.block_type = PRIME
    THEN IF is_prime(number) THEN "match" ELSE "nomatch"
    ELSE IF block.block_type = FIBONACCI
    THEN IF number \in fib THEN "match" ELSE "nomatch"
    ELSE IF props.start <= number /\ number < props.end THEN "match" ELSE "nomatch"

\* the if/elif chain of the loop body: "match", "nomatch", or the exception
\* raised while evaluating the condition (and/chained comparisons short-circuit)
BlockMatches(number, block, fib) ==
    LET props == block.properties IN
    IF block.block_type = DIVISOR
    THEN IF "divisor" \notin DOMAIN props THEN "KeyError"
         ELSE IF props.divisor = 0 THEN "ZeroDivisionError"
         ELSE IF PyMod(number, props.divisor) = 0 THEN "match" ELSE "nomatch"
    ELSE IF block.block_type = PRIME
    THEN IF is_prime(number) THEN "match" ELSE "nomatch"
    ELSE IF block.block_type = FIBONACCI
    THEN IF number \in fib THEN "match" ELSE "nomatch"
    ELSE IF block.block_type = RANGE
    THEN IF "start" \notin DOMAIN props THEN "KeyError"
         ELSE IF ~(props.start <= number) THEN "nomatch"
         ELSE IF "end" \notin DOMAIN props THEN "KeyError"
         ELSE IF number <= props.end THEN "match" ELSE "nomatch"
    ELSE "nomatch"

\* block.properties.get('word', default)
GetWord(block, default) ==
    IF "word" \in DOMAIN block.properties THEN block.properties.word ELSE default

\* [b for b in matching_blocks if b.block_type == DIVISOR and b.properties.get('word') == w]
DivisorBlocksWithWord(matching_blocks, w) ==
    SelectSeq(matching_blocks,
              LAMBDA b : b.block_type = DIVISOR /\ GetWord(b, "None") = w)

\* a mutant of fizz_blocks: the blocks with word "Fizz" of any kind
FizzBlocksOfAnyKind(matching_blocks) ==
    SelectSeq(matching_blocks, LAMBDA b : GetWord(b, "None") = "Fizz")

\* mutant of fizz_blocks: the divisor blocks are picked by their name
FizzBlocksByName(matching_blocks) ==
    LET Named(b) == b.block_type = DIVISOR /\ b.name = "Fizz"
    IN  SelectSeq(matching_blocks, Named)

fizz_blocks(matching_blocks) == DivisorBlocksWithWord(matching_blocks, "Fizz")

buzz_blocks(matching_blocks) == DivisorBlocksWithWord(matching_blocks, "Buzz")

\* a mutant of SingleBlockType: the word is looked at before the kind
WordBeforeKind(block) ==
    LET word == GetWord(block, "") IN
    IF word = "Fizz" THEN "Fizz"
    ELSE IF word = "Buzz" THEN "Buzz"
    ELSE IF block.block_type = DIVISOR THEN "divisor_custom"
    ELSE IF block.block_type = PRIME THEN "Prime"
    ELSE IF block.block_type = FIBONACCI THEN "Fib"
    ELSE IF block.block_type = RANGE THEN "range_custom"
    ELSE "combination"

\* the tag of the single matching block
SingleBlockType(block) ==
    IF block.block_type = DIVISOR
    THEN LET word == GetWord(block, "") IN
         IF word = "Fizz" THEN "Fizz"
         ELSE IF word = "Buzz" THEN "Buzz"
         ELSE "divisor_custom"
    ELSE IF block.block_type = PRIME THEN "Prime"
    ELSE IF block.block_type = FIBONACCI THEN "Fib"
    ELSE IF block.block_type = RANGE THEN "range_custom"
    ELSE "combination"

get_result_type(result_parts, matching_blocks) ==
    IF result_parts = <<>> THEN "number"
    ELSE IF Len(matching_blocks) = 1 THEN SingleBlockType(matching_blocks[1])
    ELSE IF fizz_blocks(matching_blocks) # <<>> /\ buzz_blocks(matching_blocks) # <<>>
         THEN "FizzBuzz"
         ELSE "combination"

\* the loop over the sorted blocks: the lists it has built when it ends, or
\* the exception that ended it
RECURSIVE MatchLoop(_, _, _, _, _)
MatchLoop(sorted, number, fib, result_parts, matching_blocks) ==
    IF sorted = <<>>
    THEN [raised |-> "none", result_parts |-> result_parts,
          matching_blocks |-> matching_blocks]
    ELSE LET block == Head(sorted)
             m     == BlockMatches(number, block, fib)
         IN  IF m \in Exceptions THEN [raised |-> m]
             ELSE IF m = "match"
             THEN IF "word" \notin DOMAIN block.properties
                  THEN [raised |-> "KeyError"]
                  ELSE MatchLoop(Tail(sorted), number, fib,
                                 Append(result_parts, block.properties.word),
                                 Append(matching_blocks, block))
             ELSE MatchLoop(Tail(sorted), number, fib, result_parts, matching_blocks)

\* final_text = ''.join(result_parts) if result_parts else str(number)
FinalText(result_parts, number) ==
    IF result_parts # <<>> THEN Join(result_parts) ELSE Str(number)

\* FizzBuzzResult(number, text, result_type, matching_blocks), or the exception
process_number(number, bs, fib) ==
    LET loop == MatchLoop(SortedByOrder(bs), number, fib, <<>>, <<>>) IN
    IF loop.raised # "none" THEN [raised |-> loop.raised]
    ELSE [raised          |-> "none",
          number          |-> number,
          text            |-> FinalText(loop.result_parts, number),
          result_type     |-> get_result_type(loop.result_parts, loop.matching_blocks),
          matching_blocks |-> loop.matching_blocks]

-----------------------------------------------------------------------------
(* The rule lists the calls are made with *)

\* what the block editor accepts (get_properties, save_block): a positive
\* divisor, start < end, a non-empty word
ValidRuleBlock(b) ==
    /\ b.block_type \in {DIVISOR, PRIME, FIBONACCI, RANGE}
    /\ "word" \in DOMAIN b.properties /\ b.properties.word # ""
    /\ b.block_type = DIVISOR =>
          "divisor" \in DOMAIN b.properties /\ b.properties.divisor > 0
    /\ b.block_type = RANGE =>
          /\ {"start", "end"} \subseteq DOMAIN b.properties
          /\ b.properties.start < b.properties.end

ValidRuleList(bs) == \A k \in 1..Len(bs) : ValidRuleBlock(bs[k])

\* create_default_blocks: the two rules the application starts with
DefaultBlocks ==
    << RuleBlock("b1", DIVISOR, "Fizz", [divisor |-> 3, word |-> "Fizz"], 0),
       RuleBlock("b2", DIVISOR, "Buzz", [divisor |-> 5, word |-> "Buzz"], 1) >>

\* the kinds of rule the editor builds: block_type, name, properties
Templates ==
    { [block_type |-> DIVISOR,   name |-> "Fizz",
       properties |-> [divisor |-> 3, word |-> "Fizz"]],
      [block_type |-> DIVISOR,   name |-> "Buzz",
       properties |-> [divisor |-> 5, word |-> "Buzz"]],
      [block_type |-> DIVISOR,   name |-> "Even",
       properties |-> [divisor |-> 2, word |-> "A"]],
      [block_type |-> PRIME,     name |-> "Prime",
       properties |-> [word |-> "Fizz"]],
      [block_type |-> FIBONACCI, name |-> "Fibonacci",
       properties |-> [word |-> "Fib"]],
      [block_type |-> RANGE,     name |-> "Teens",
       properties |-> [start |-> 13, end |-> 15, word |-> "Buzz"]] }

\* order values: not contiguous, and two rules may share one
Orders == {0, 2}

\* the id of the rule at position k (a uuid in the program: unique)
IdOf(k) == "b" \o Str(k)

\* the numbers process_number is called with
Numbers == -3..MaxN

\* the Fibonacci set process_number is called with: a set that is not the
\* Fibonacci numbers (4 is in it, 8 is not)
FibArgs == { {1, 2, 3, 4, 5, 13} }

\* the rule lists of the batch calls: none, the default rules, rules of every
\* kind, and three lists that process_number fails on: a range rule that
\* lacks its 'end', a divisor rule with the divisor 0, a prime rule that lacks
\* its 'word'
BatchRuleLists ==
    { <<>>,
      DefaultBlocks,
      << RuleBlock("b1", FIBONACCI, "Fibonacci", [word |-> "Fib"], 2),
         RuleBlock("b2", PRIME, "Prime", [word |-> "Prime"], 0),
         RuleBlock("b3", RANGE, "Teens",
                   [start |-> 13, end |-> 15, word |-> "Teen"], 1) >>,
      << RuleBlock("b1", DIVISOR, "Fizz", [divisor |-> 3, word |-> "Fizz"], 0),
         RuleBlock("b2", RANGE, "Open", [start |-> 4, word |-> "R"], 1) >>,
      << RuleBlock("b1", DIVISOR, "Zero", [divisor |-> 0, word |-> "Z"], 0) >>,
      << RuleBlock("b1", DIVISOR, "Even", [divisor |-> 2, word |-> "Even"], 0),
         RuleBlock("b2", PRIME, "Mute", [colour |-> "red"], 1) >> }

-----------------------------------------------------------------------------
(* The state machine *)

NoCall == [fn |-> "none"]

BatchIdle ==
    /\ pc = "idle"
    /\ b_start = 0
    /\ b_end = 0
    /\ has_callback = FALSE
    /\ fibonacci_set = {}
    /\ i = 0
    /\ results = <<>>
    /\ progress_calls = <<>>
    /\ returned = <<>>
    /\ error = "none"

\* no window: the variables of the application, where the engine is used
\* without it
NoGui ==
    /\ heap = <<>>
    /\ self_blocks = <<>>
    /\ arg_blocks = <<>>
    /\ aliased = TRUE
    /\ is_generating = FALSE
    /\ generate_btn = "normal"
    /\ progress_var = [num |-> 0, den |-> 1]
    /\ results_text = <<>>
    /\ heatmap = <<>>
    /\ last_error = ""
    /\ after_queue = <<>>
    /\ wpc = "none"
    /\ w_start = 0
    /\ w_end = 0
    /\ w_converted = 0
    /\ threads = 0
    /\ ops = 0

\* Spec: a caller builds a rule list of at most MaxRules rules, each a
\* template with an order, and calls process_number once (a second call reads
\* nothing the first one wrote, so it reaches the same states)
Init ==
    /\ blocks = <<>>
    /\ call = NoCall
    /\ BatchIdle
    /\ NoGui

\* the caller's blocks.append(RuleBlock(...))
AppendBlock(t, order) ==
    /\ call = NoCall
    /\ Len(blocks) < MaxRules
    /\ blocks' = Append(blocks, RuleBlock(IdOf(Len(blocks) + 1), t.block_type,
                                          t.name, t.properties, order))
    /\ UNCHANGED call
    /\ UNCHANGED batchVars
    /\ UNCHANGED guiVars

CallProcessNumber(number, fib) ==
    /\ call = NoCall
    /\ call' = [fn |-> "process_number", number |-> number, fib |-> fib,
                ret |-> process_number(number, blocks, fib)]
    /\ blocks' = BlocksAfterProcessNumber(blocks)
    /\ UNCHANGED batchVars
    /\ UNCHANGED guiVars

Next ==
    \/ \E t \in Templates, order \in Orders : AppendBlock(t, order)
    \/ \E number \in Numbers, fib \in FibArgs : CallProcessNumber(number, fib)

Spec == Init /\ [][Next]_vars

\* LeafSpec: calls of is_prime and generate_fibonacci_set
LeafInit ==
    /\ blocks = <<>>
    /\ call = NoCall
    /\ BatchIdle
    /\ NoGui

CallIsPrime(n) ==
    /\ call' = [fn |-> "is_prime", n |-> n, ret |-> is_prime(n)]
    /\ UNCHANGED blocks
    /\ UNCHANGED batchVars
    /\ UNCHANGED guiVars

CallGenerateFibonacciSet(max_value) ==
    /\ call' = [fn |-> "generate_fibonacci_set", max_value |-> max_value,
                ret |-> generate_fibonacci_set(max_value)]
    /\ UNCHANGED blocks
    /\ UNCHANGED batchVars
    /\ UNCHANGED guiVars

LeafNext ==
    \/ \E n \in -3..MaxPrimeArg : CallIsPrime(n)
    \/ \E max_value \in -2..MaxFibArg : CallGenerateFibonacciSet(max_value)

LeafSpec == LeafInit /\ [][LeafNext]_vars

-----------------------------------------------------------------------------
(* generate_fizzbuzz_batch, one loop iteration at a time *)

\* a mutant of BatchValidation: start > end instead of start >= end
BatchValidationAllowsEqual(start, end, bs) ==
    IF bs = <<>> THEN "ValueError: No blocks defined"
    ELSE IF start > end THEN "ValueError: Start must be less than end"
    ELSE IF start < 1 THEN "ValueError: Start must be at least 1"
    ELSE "none"

\* the checks before the loop: the message of the ValueError, or "none"
BatchValidation(start, end, bs) ==
    IF bs = <<>> THEN "ValueError: No blocks defined"
    ELSE IF start >= end THEN "ValueError: Start must be less than end"
    ELSE IF start < 1 THEN "ValueError: Start must be at least 1"
    ELSE "none"

\* mutant of BatchFibonacciSet: the set stops one short of end
BatchFibonacciSetBelowEnd(end, bs) ==
    IF \E k \in 1..Len(bs) : bs[k].block_type = FIBONACCI
    THEN generate_fibonacci_set(end - 1)
    ELSE {}

\* generate_fibonacci_set(end) if any(b.block_type == FIBONACCI for b in blocks) else set()
BatchFibonacciSet(end, bs) ==
    IF \E k \in 1..Len(bs) : bs[k].block_type = FIBONACCI
    THEN generate_fibonacci_set(end)
    ELSE {}

\* total_numbers = end - start + 1
TotalNumbers(start, end) == end - start + 1

\* a mutant of RangeLen: len(range(start, end))
RangeLenWithoutEnd(start, end) == IF end > start THEN end - start ELSE 0

\* len(range(start, end + 1))
RangeLen(start, end) == IF end + 1 > start THEN (end + 1) - start ELSE 0

\* range(start, end + 1)[k]
RangeNumber(start, k) == start + k

\* mutant of ProgressDue: the period is counted on the index, not on the count
ProgressDueOnIndex(k, total_numbers) ==
    k % 50 = 0 \/ k = total_numbers - 1

\* (k + 1) % 50 == 0 or k == total_numbers - 1, for the iteration of index k
ProgressDue(k, total_numbers) == (k + 1) % 50 = 0 \/ k = total_numbers - 1

\* mutant of Progress: the index of the iteration in place of the count
ProgressOfIndex(k, total_numbers) == [num |-> k * 100, den |-> total_numbers]

\* progress = (k + 1) / total_numbers * 100, kept as the exact fraction
Progress(k, total_numbers) == [num |-> (k + 1) * 100, den |-> total_numbers]

BatchInit ==
    /\ blocks \in BatchRuleLists
    /\ call = NoCall
    /\ BatchIdle
    /\ NoGui

\* mutant of BatchCall: results is a list that outlives the call (a default
\* argument or a global of the module), not the fresh list of line 150
BatchCallKeepsResults(start, end, callback) ==
    /\ pc = "idle"
    /\ b_start' = start
    /\ b_end' = end
    /\ has_callback' = callback
    /\ i' = 0
    /\ results' = results
    /\ progress_calls' = <<>>
    /\ returned' = <<>>
    /\ error' = BatchValidation(start, end, blocks)
    /\ pc' = IF BatchValidation(start, end, blocks) = "none" THEN "loop" ELSE "raised"
    /\ fibonacci_set' = IF BatchValidation(start, end, blocks) = "none"
                        THEN BatchFibonacciSet(end, blocks)
                        ELSE {}
    /\ UNCHANGED <<blocks, call>>
    /\ UNCHANGED guiVars

\* the call, up to the loop: the validation, the Fibonacci set, the locals
\* (every local is fresh in a call, so one call per behaviour reaches every
\* state a later call would)
BatchCall(start, end, callback) ==
    /\ pc = "idle"
    /\ b_start' = start
    /\ b_end' = end
    /\ has_callback' = callback
    /\ i' = 0
    /\ results' = <<>>
    /\ progress_calls' = <<>>
    /\ returned' = <<>>
    /\ error' = BatchValidation(start, end, blocks)
    /\ pc' = IF BatchValidation(start, end, blocks) = "none" THEN "loop" ELSE "raised"
    /\ fibonacci_set' = IF BatchValidation(start, end, blocks) = "none"
                        THEN BatchFibonacciSet(end, blocks)
                        ELSE {}
    /\ UNCHANGED <<blocks, call>>
    /\ UNCHANGED guiVars

\* mutant of BatchIterateStep: an exception of process_number is caught and
\* the number left out (except: continue)
BatchIterateSkipsFailure ==
    /\ pc = "loop"
    /\ i < RangeLen(b_start, b_end)
    /\ LET result == process_number(RangeNumber(b_start, i), blocks, fibonacci_set)
       IN  /\ results' = IF result.raised # "none" THEN results
                         ELSE Append(results, result)
           /\ progress_calls' =
                 IF has_callback /\ ProgressDue(i, TotalNumbers(b_start, b_end))
                 THEN Append(progress_calls,
                             [after |-> i + 1,
                              progress |-> Progress(i, TotalNumbers(b_start, b_end))])
                 ELSE progress_calls
           /\ i' = i + 1
           /\ UNCHANGED <<pc, error>>
    /\ blocks' = BlocksAfterProcessNumber(blocks)
    /\ UNCHANGED <<call, b_start, b_end, has_callback, fibonacci_set, returned>>

\* one iteration of the loop: process_number, results.append, the callback
\* (progress_calls keeps each call: the count of numbers done when it was made
\* and the value it was given); an exception of process_number leaves the call
BatchIterateStep ==
    /\ pc = "loop"
    /\ i < RangeLen(b_start, b_end)
    /\ LET result == process_number(RangeNumber(b_start, i), blocks, fibonacci_set)
       IN  IF result.raised # "none"
           THEN /\ pc' = "raised"
                /\ error' = result.raised
                /\ UNCHANGED <<i, results, progress_calls>>
           ELSE /\ results' = Append(results, result)
                /\ progress_calls' =
                      IF has_callback /\ ProgressDue(i, TotalNumbers(b_start, b_end))
                      THEN Append(progress_calls,
                                  [after |-> i + 1,
                                   progress |-> Progress(i, TotalNumbers(b_start, b_end))])
                      ELSE progress_calls
                /\ i' = i + 1
                /\ UNCHANGED <<pc, error>>
    /\ blocks' = BlocksAfterProcessNumber(blocks)
    /\ UNCHANGED <<call, b_start, b_end, has_callback, fibonacci_set, returned>>

\* the iteration with a callback that only records its calls
BatchIterate ==
    /\ BatchIterateStep
    /\ UNCHANGED guiVars

\* return results
BatchReturn ==
    /\ pc = "loop"
    /\ i = RangeLen(b_start, b_end)
    /\ pc' = "returned"
    /\ returned' = results
    /\ UNCHANGED <<blocks, call, b_start, b_end, has_callback, fibonacci_set, i,
                   results, progress_calls, error>>
    /\ UNCHANGED guiVars

BatchNext ==
    \/ \E start \in -1..MaxStart, end \in 0..MaxEnd, callback \in BOOLEAN :
          BatchCall(start, end, callback)
    \/ BatchIterate
    \/ BatchReturn

BatchSpec == BatchInit /\ [][BatchNext]_vars

\* the largest end of the range in the specification of two runs
MaxRerunEnd == 5

\* the caller has the outcome of a run (what it returned or raised; the
\* results the run had are kept with it) and is free to call again; nothing
\* here resets a variable of the run
BatchAgain ==
    /\ pc \in {"returned", "raised"}
    /\ call = NoCall
    /\ call' = [fn |-> "generate_fizzbuzz_batch", start |-> b_start,
                end |-> b_end, outcome |-> pc, ret |-> returned,
                error |-> error, results |-> results]
    /\ pc' = "idle"
    /\ UNCHANGED <<blocks, b_start, b_end, has_callback, fibonacci_set, i,
                   results, progress_calls, returned, error>>
    /\ UNCHANGED guiVars

\* RerunSpec: two runs on one rule list, over short ranges
RerunNext ==
    \/ \E start \in 0..MaxStart, end \in 1..MaxRerunEnd, callback \in BOOLEAN :
          BatchCall(start, end, callback)
    \/ BatchIterate
    \/ BatchReturn
    \/ BatchAgain

RerunSpec == BatchInit /\ [][RerunNext]_vars

-----------------------------------------------------------------------------
(* The application: the rule list of the window                              *)
(*                                                                           *)
(* A RuleBlock is an object: heap[a] is the object at address a, and a list  *)
(* holds addresses. self_blocks is the list self.blocks refers to. The       *)
(* worker gives generate_fizzbuzz_batch the list self.blocks refers to when  *)
(* it calls (no copy): arg_blocks is that list, the same list as self_blocks *)
(* while aliased, and blocks is what the batch reads in it, the objects as   *)
(* they are now. Outside a batch call arg_blocks follows self_blocks.        *)

\* the operations of the user in a behaviour
MaxOps == 3

displayVars == <<is_generating, generate_btn, progress_var, results_text,
                 heatmap, last_error>>
workerVars  == <<wpc, w_start, w_end, w_converted, threads>>

\* the rules a list of addresses holds
View(h, addrs) == [k \in 1..Len(addrs) |-> h[addrs[k]]]

\* the rules the dialog is filled with: BlockEditorDialog.get_properties lets
\* through a divisor > 0, a range with start < end, and save_block a word that
\* is not empty
GuiTemplates ==
    { [block_type |-> FIBONACCI, name |-> "Fibonacci",
       properties |-> [word |-> "Fib"]],
      [block_type |-> DIVISOR, name |-> "Even",
       properties |-> [divisor |-> 2, word |-> "Even"]] }

\* the place in addrs of the first rule with the id
IndexOfId(h, addrs, id) ==
    CHOOSE k \in 1..Len(addrs) :
       /\ h[addrs[k]].id = id
       /\ \A j \in 1..(k - 1) : h[addrs[j]].id # id

\* mutant of reorder_blocks: enumerate(self.blocks[1:], 1), the first rule
\* of the list keeps the order it had
ReorderFromSecond(h, addrs) ==
    [a \in 1..Len(h) |->
       IF \E k \in 2..Len(addrs) : addrs[k] = a
       THEN [h[a] EXCEPT !.order = (CHOOSE k \in 2..Len(addrs) : addrs[k] = a) - 1]
       ELSE h[a]]

\* reorder_blocks: block.order = i, written to each object of the list
reorder_blocks(h, addrs) ==
    [a \in 1..Len(h) |->
       IF \E k \in 1..Len(addrs) : addrs[k] = a
       THEN [h[a] EXCEPT !.order = (CHOOSE k \in 1..Len(addrs) : addrs[k] = a) - 1]
       ELSE h[a]]

\* mutant of BlocksWithoutId: the rule and all that follow it are left out
BlocksBeforeId(h, addrs, block_id) ==
    SubSeq(addrs, 1, IndexOfId(h, addrs, block_id) - 1)

\* [b for b in self.blocks if b.id != block_id]
BlocksWithoutId(h, addrs, block_id) ==
    LET Kept(a) == h[a].id # block_id IN SelectSeq(addrs, Kept)

\* the list with the places j and k exchanged
Swapped(addrs, j, k) == [addrs EXCEPT ![j] = addrs[k], ![k] = addrs[j]]

\* what a write to the list of self.blocks, or to its objects, leaves in the
\* list the worker holds: the same list while aliased
ArgAfterWrite(new_self) == IF aliased THEN new_self ELSE arg_blocks

\* an operation on the rules counts as one of the user's; it touches none of
\* these variables
RuleOpFrame ==
    /\ ops < MaxOps
    /\ ops' = ops + 1
    /\ UNCHANGED call
    /\ UNCHANGED batchVars
    /\ UNCHANGED displayVars
    /\ UNCHANGED workerVars
    /\ UNCHANGED after_queue

\* add_block, the dialog saved with the template t: a new object, its order
\* set to len(self.blocks), appended to the list
add_block(t) ==
    /\ LET a == Len(heap) + 1
           new_self == Append(self_blocks, a)
       IN  /\ heap' = Append(heap, RuleBlock(IdOf(a), t.block_type, t.name,
                                             t.properties, Len(self_blocks)))
           /\ self_blocks' = new_self
           /\ arg_blocks' = ArgAfterWrite(new_self)
           /\ aliased' = aliased
           /\ blocks' = View(heap', arg_blocks')
    /\ RuleOpFrame

\* edit_block on the rule at place k, the dialog saved with the template t (of
\* the kind of the rule): a new object with the id and the order of the old
\* one takes its place in the list
edit_block(k, t) ==
    /\ k \in 1..Len(self_blocks)
    /\ t.block_type = heap[self_blocks[k]].block_type
    /\ LET block == heap[self_blocks[k]]
           a == Len(heap) + 1
           new_self == [self_blocks EXCEPT
                          ![IndexOfId(heap, self_blocks, block.id)] = a]
       IN  /\ heap' = Append(heap, RuleBlock(block.id, block.block_type, t.name,
                                             t.properties, block.order))
           /\ self_blocks' = new_self
           /\ arg_blocks' = ArgAfterWrite(new_self)
           /\ aliased' = aliased
           /\ blocks' = View(heap', arg_blocks')
    /\ RuleOpFrame

\* delete_block: self.blocks is bound to a new list without the rule, then
\* reorder_blocks. The list a running batch holds is the old one.
delete_block(block_id) ==
    /\ \E k \in 1..Len(self_blocks) : heap[self_blocks[k]].id = block_id
    /\ LET new_self == BlocksWithoutId(heap, self_blocks, block_id)
       IN  /\ self_blocks' = new_self
           /\ heap' = reorder_blocks(heap, new_self)
           /\ IF pc = "loop"
              THEN arg_blocks' = arg_blocks /\ aliased' = FALSE
              ELSE arg_blocks' = new_self /\ aliased' = TRUE
           /\ blocks' = View(heap', arg_blocks')
    /\ RuleOpFrame

\* move_block: the rule changes places with its neighbour in the list, then
\* reorder_blocks; nothing at the end of the list (where the arrow is
\* disabled: not an operation of the user)
move_block(block_id, direction) ==
    /\ \E k \in 1..Len(self_blocks) : heap[self_blocks[k]].id = block_id
    /\ LET block_index == IndexOfId(heap, self_blocks, block_id)
           new_self ==
              IF direction < 0 /\ block_index > 1
              THEN Swapped(self_blocks, block_index, block_index - 1)
              ELSE IF direction > 0 /\ block_index < Len(self_blocks)
              THEN Swapped(self_blocks, block_index, block_index + 1)
              ELSE self_blocks
       IN  /\ self_blocks' = new_self
           /\ heap' = IF new_self = self_blocks THEN heap
                      ELSE reorder_blocks(heap, new_self)
           /\ arg_blocks' = ArgAfterWrite(new_self)
           /\ aliased' = aliased
           /\ blocks' = View(heap', arg_blocks')
           /\ ops < MaxOps
           /\ ops' = IF new_self = self_blocks THEN ops ELSE ops + 1
    /\ UNCHANGED call
    /\ UNCHANGED batchVars
    /\ UNCHANGED displayVars
    /\ UNCHANGED workerVars
    /\ UNCHANGED after_queue

\* clear_all_blocks: self.blocks.clear(), on the list itself
clear_all_blocks ==
    /\ self_blocks' = <<>>
    /\ arg_blocks' = ArgAfterWrite(<<>>)
    /\ aliased' = aliased
    /\ blocks' = View(heap, arg_blocks')
    /\ UNCHANGED heap
    /\ RuleOpFrame

-----------------------------------------------------------------------------
(* The application: a generation. The UI thread runs the operations of the   *)
(* window and, one at a time and oldest first, the callbacks queued with     *)
(* root.after; the worker thread runs generate_worker. A step of the worker  *)
(* goes from one of its effects that another thread can see (a callback      *)
(* queued, the call of the batch, an iteration of its loop) to the next.     *)

\* what the user has in the entries start and end when generating
GuiEntries == { <<0, 2>>, <<2, 2>>, <<1, 2>>, <<1, 3>> }

\* the chunk of lines after which the worker queues an update of the display
ChunkSize == 50

\* f"{number:4d}" for number >= 0: right-aligned in at least 4 places
Pad4(number) ==
    (IF number < 10 THEN "   "
     ELSE IF number < 100 THEN "  "
     ELSE IF number < 1000 THEN " "
     ELSE "") \o Str(number)

\* f"{result.number:4d}: {result.text}"
TextLine(result) == Pad4(result.number) \o ": " \o result.text

\* (result.number, result.text, result.result_type)
HeatmapEntry(result) == <<result.number, result.text, result.result_type>>

\* str(e) of the exceptions of the batch
ExcStr(e) ==
    CASE e = "ValueError: No blocks defined" -> "No blocks defined"
      [] e = "ValueError: Start must be less than end" -> "Start must be less than end"
      [] e = "ValueError: Start must be at least 1" -> "Start must be at least 1"
      [] OTHER -> e

\* the checks of generate_fizzbuzz on the entries and the rules, in its order
GuiValidation(start, end, addrs) ==
    IF start >= end THEN "Start must be less than end"
    ELSE IF start < 1 THEN "Start must be at least 1"
    ELSE IF addrs = <<>> THEN "No blocks defined"
    ELSE "none"

\* GUI.__init__: the default rules Fizz and Buzz, nothing generated
GuiInit ==
    /\ heap = DefaultBlocks
    /\ self_blocks = <<1, 2>>
    /\ arg_blocks = <<1, 2>>
    /\ aliased = TRUE
    /\ blocks = DefaultBlocks
    /\ call = NoCall
    /\ BatchIdle
    /\ is_generating = FALSE
    /\ generate_btn = "normal"
    /\ progress_var = [num |-> 0, den |-> 1]
    /\ results_text = <<>>
    /\ heatmap = <<>>
    /\ last_error = ""
    /\ after_queue = <<>>
    /\ wpc = "none"
    /\ w_start = 0
    /\ w_end = 0
    /\ w_converted = 0
    /\ threads = 0
    /\ ops = 0

\* mutant of generate_fizzbuzz: without the test of is_generating
GenerateWhileGenerating(start, end) ==
    /\ ops < MaxOps
    /\ IF GuiValidation(start, end, self_blocks) # "none"
       THEN /\ last_error' = GuiValidation(start, end, self_blocks)
            /\ ops' = ops + 1
            /\ UNCHANGED <<is_generating, generate_btn, progress_var,
                           results_text, heatmap>>
            /\ UNCHANGED workerVars
       ELSE /\ is_generating' = TRUE
            /\ generate_btn' = "disabled"
            /\ progress_var' = [num |-> 0, den |-> 1]
            /\ wpc' = "start"
            /\ w_start' = start
            /\ w_end' = end
            /\ threads' = threads + 1
            /\ ops' = ops + 1
            /\ UNCHANGED <<results_text, heatmap, last_error, w_converted>>
    /\ UNCHANGED <<blocks, call, heap, self_blocks, arg_blocks, aliased, after_queue>>
    /\ UNCHANGED batchVars

\* generate_fizzbuzz with start and end in the entries: nothing while a
\* generation runs (the button is disabled then: not an operation of the
\* user); an error dialog for entries or rules it refuses;
\* otherwise the generation is marked running and the worker thread started
generate_fizzbuzz(start, end) ==
    /\ ops < MaxOps
    /\ IF is_generating
       THEN UNCHANGED <<displayVars, workerVars, ops>>
       ELSE IF GuiValidation(start, end, self_blocks) # "none"
       THEN /\ last_error' = GuiValidation(start, end, self_blocks)
            /\ ops' = ops + 1
            /\ UNCHANGED <<is_generating, generate_btn, progress_var,
                           results_text, heatmap>>
            /\ UNCHANGED workerVars
       ELSE /\ is_generating' = TRUE
            /\ generate_btn' = "disabled"
            /\ progress_var' = [num |-> 0, den |-> 1]
            /\ wpc' = "start"
            /\ w_start' = start
            /\ w_end' = end
            /\ threads' = threads + 1
            /\ ops' = ops + 1
            /\ UNCHANGED <<results_text, heatmap, last_error, w_converted>>
    /\ UNCHANGED <<blocks, call, heap, self_blocks, arg_blocks, aliased, after_queue>>
    /\ UNCHANGED batchVars

\* the variables a step of the worker leaves alone when it only queues a
\* callback
WorkerQueueFrame ==
    /\ UNCHANGED <<blocks, call, heap, self_blocks, arg_blocks, aliased, ops>>
    /\ UNCHANGED displayVars
    /\ UNCHANGED batchVars

\* generate_worker, to its first effect: self.root.after(0, self.clear_display)
WorkerQueuesClear ==
    /\ wpc = "start"
    /\ after_queue' = Append(after_queue, [fn |-> "clear_display"])
    /\ wpc' = "batch"
    /\ UNCHANGED <<w_start, w_end, w_converted, threads>>
    /\ WorkerQueueFrame

\* generate_fizzbuzz_batch(start, end, self.blocks, progress_callback), up to
\* its loop: the list is the one self.blocks refers to now
WorkerCallsBatch ==
    /\ wpc = "batch"
    /\ BatchCall(w_start, w_end, TRUE)

\* mutant of WorkerIterates: progress_callback writes progress_var itself,
\* on the worker thread
WorkerIteratesSetsProgress ==
    /\ wpc = "batch"
    /\ BatchIterateStep
    /\ progress_var' =
          IF Len(progress_calls') > Len(progress_calls)
          THEN progress_calls'[Len(progress_calls')].progress
          ELSE progress_var
    /\ UNCHANGED <<heap, self_blocks, arg_blocks, aliased, ops, after_queue>>
    /\ UNCHANGED <<is_generating, generate_btn, results_text, heatmap, last_error>>
    /\ UNCHANGED workerVars

\* an iteration of the batch; progress_callback queues the write of
\* progress_var: self.root.after(0, lambda p=progress: self.progress_var.set(p))
WorkerIterates ==
    /\ wpc = "batch"
    /\ BatchIterateStep
    /\ after_queue' =
          IF Len(progress_calls') > Len(progress_calls)
          THEN Append(after_queue,
                      [fn |-> "set_progress",
                       p |-> progress_calls'[Len(progress_calls')].progress])
          ELSE after_queue
    /\ UNCHANGED <<heap, self_blocks, arg_blocks, aliased, ops>>
    /\ UNCHANGED displayVars
    /\ UNCHANGED workerVars

\* the batch returns its results to generate_worker
WorkerBatchReturns ==
    /\ wpc = "batch"
    /\ BatchReturn

\* the conversion loop, to its next effect: the lines of the next results, at
\* most ChunkSize of them, are queued for update_results_display
WorkerQueuesResults ==
    /\ wpc = "batch"
    /\ pc = "returned"
    /\ w_converted < Len(returned)
    /\ LET upto == IF w_converted + ChunkSize < Len(returned)
                   THEN w_converted + ChunkSize
                   ELSE Len(returned)
           text_results == [k \in 1..(upto - w_converted) |->
                              TextLine(returned[w_converted + k])]
       IN  /\ after_queue' = Append(after_queue,
                                    [fn |-> "update_results_display",
                                     r |-> text_results])
           /\ w_converted' = upto
    /\ UNCHANGED <<wpc, w_start, w_end, threads>>
    /\ WorkerQueueFrame

\* self.root.after(0, lambda: self.finalize_generation(heatmap_data, total_numbers))
WorkerQueuesFinalize ==
    /\ wpc = "batch"
    /\ pc = "returned"
    /\ w_converted = Len(returned)
    /\ after_queue' = Append(after_queue,
                             [fn |-> "finalize_generation",
                              heatmap_data |-> [k \in 1..Len(returned) |->
                                                  HeatmapEntry(returned[k])],
                              total_numbers |-> Len(returned)])
    /\ wpc' = "finally"
    /\ UNCHANGED <<w_start, w_end, w_converted, threads>>
    /\ WorkerQueueFrame

\* except Exception as e: the error dialog is queued
WorkerQueuesError ==
    /\ wpc = "batch"
    /\ pc = "raised"
    /\ after_queue' = Append(after_queue,
                             [fn |-> "showerror",
                              message |-> "Generation failed: " \o ExcStr(error)])
    /\ wpc' = "finally"
    /\ UNCHANGED <<w_start, w_end, w_converted, threads>>
    /\ WorkerQueueFrame

\* finally: generation_complete is queued and the thread ends; its locals and
\* those of the batch are gone, and the list a next batch is given is the one
\* self.blocks refers to
WorkerQueuesComplete ==
    /\ wpc = "finally"
    /\ after_queue' = Append(after_queue, [fn |-> "generation_complete"])
    /\ wpc' = "none"
    /\ w_start' = 0
    /\ w_end' = 0
    /\ w_converted' = 0
    /\ threads' = threads - 1
    /\ pc' = "idle"
    /\ b_start' = 0
    /\ b_end' = 0
    /\ has_callback' = FALSE
    /\ fibonacci_set' = {}
    /\ i' = 0
    /\ results' = <<>>
    /\ progress_calls' = <<>>
    /\ returned' = <<>>
    /\ error' = "none"
    /\ arg_blocks' = self_blocks
    /\ aliased' = TRUE
    /\ blocks' = View(heap, self_blocks)
    /\ UNCHANGED <<call, heap, self_blocks, ops>>
    /\ UNCHANGED displayVars

\* clear_display
clear_display ==
    /\ results_text' = <<>>
    /\ heatmap' = <<>>
    /\ UNCHANGED <<is_generating, generate_btn, progress_var, last_error>>

\* lambda p=progress: self.progress_var.set(p)
set_progress(p) ==
    /\ progress_var' = p
    /\ UNCHANGED <<is_generating, generate_btn, results_text, heatmap, last_error>>

\* mutant of update_results_display: the lines are inserted at the top
UpdateInsertsAtTop(new_results) ==
    /\ results_text' = new_results \o results_text
    /\ UNCHANGED <<is_generating, generate_btn, progress_var, heatmap, last_error>>

\* update_results_display(new_results)
update_results_display(new_results) ==
    /\ results_text' = results_text \o new_results
    /\ UNCHANGED <<is_generating, generate_btn, progress_var, heatmap, last_error>>

\* finalize_generation(heatmap_data, total_numbers)
finalize_generation(heatmap_data, total_numbers) ==
    /\ heatmap' = heatmap_data
    /\ UNCHANGED <<is_generating, generate_btn, progress_var, results_text,
                   last_error>>

\* lambda: messagebox.showerror("Error", f"Generation failed: {str(e)}"). The
\* lambda reads e when it runs; e is unbound when the except clause has
\* ended, and the callback then fails with a NameError and shows nothing.
showerror(message) ==
    /\ \E e_bound \in BOOLEAN :
          last_error' = IF e_bound THEN message ELSE last_error
    /\ UNCHANGED <<is_generating, generate_btn, progress_var, results_text,
                   heatmap>>

\* generation_complete
generation_complete ==
    /\ is_generating' = FALSE
    /\ generate_btn' = "normal"
    /\ progress_var' = [num |-> 100, den |-> 1]
    /\ UNCHANGED <<results_text, heatmap, last_error>>

\* the UI thread runs the oldest callback of the queue
RunCallback ==
    /\ after_queue # <<>>
    /\ after_queue' = Tail(after_queue)
    /\ LET cb == Head(after_queue)
       IN  CASE cb.fn = "clear_display" -> clear_display
             [] cb.fn = "set_progress" -> set_progress(cb.p)
             [] cb.fn = "update_results_display" -> update_results_display(cb.r)
             [] cb.fn = "finalize_generation" ->
                   finalize_generation(cb.heatmap_data, cb.total_numbers)
             [] cb.fn = "showerror" -> showerror(cb.message)
             [] cb.fn = "generation_complete" -> generation_complete
    /\ UNCHANGED <<blocks, call, heap, self_blocks, arg_blocks, aliased, ops>>
    /\ UNCHANGED batchVars
    /\ UNCHANGED workerVars

\* a step of the UI thread on the rules
RuleOp ==
    \/ \E t \in GuiTemplates : add_block(t)
    \/ \E k \in 1..Len(self_blocks), t \in GuiTemplates : edit_block(k, t)
    \/ \E k \in 1..Len(self_blocks) : delete_block(heap[self_blocks[k]].id)
    \/ \E k \in 1..Len(self_blocks), direction \in {-1, 1} :
          move_block(heap[self_blocks[k]].id, direction)
    \/ clear_all_blocks

\* a step of the worker thread
WorkerStep ==
    \/ WorkerQueuesClear
    \/ WorkerCallsBatch
    \/ WorkerIterates
    \/ WorkerBatchReturns
    \/ WorkerQueuesResults
    \/ WorkerQueuesFinalize
    \/ WorkerQueuesError
    \/ WorkerQueuesComplete

GuiNext ==
    \/ RuleOp
    \/ \E entries \in GuiEntries : generate_fizzbuzz(entries[1], entries[2])
    \/ RunCallback
    \/ WorkerStep

GuiSpec == GuiInit /\ [][GuiNext]_vars

\* the step of WorkerIterates, told by what it does to the batch loop: it
\* goes to the next number, or ends the loop with the exception. No other
\* step of GuiNext writes i or pc while the loop runs, so a step of GuiNext
\* is this step exactly when it is a step of WorkerIterates, and this step
\* is enabled exactly when WorkerIterates is
WorkerLoopAdvances ==
    /\ wpc = "batch"
    /\ pc = "loop"
    /\ i < RangeLen(b_start, b_end)
    /\ \/ i' = i + 1 /\ pc' = pc
       \/ i' = i /\ pc' = "raised"

\* the steps of the running worker thread outside the loop of the batch
WorkerRuns ==
    \/ WorkerQueuesClear
    \/ WorkerCallsBatch
    \/ WorkerBatchReturns
    \/ WorkerQueuesResults
    \/ WorkerQueuesFinalize
    \/ WorkerQueuesError
    \/ WorkerQueuesComplete

\* GuiFairSpec: the worker thread and the event loop of the UI thread keep
\* running: a thread that can take a step takes one, a queued callback is run
GuiFairSpec ==
    /\ GuiSpec
    /\ WF_vars(WorkerRuns)
    /\ WF_<<i, pc>>(WorkerLoopAdvances)
    /\ WF_vars(RunCallback)

-----------------------------------------------------------------------------
(* DisplaySpec: generations of more than ChunkSize numbers with the default
   rules, one after the other, and no operation on the rules *)

\* the entries of the generations: 51 numbers (a chunk of 50 and a rest of 1)
\* and 100 numbers (two chunks of 50 and no rest)
DisplayEntries == { <<1, 51>>, <<2, 101>> }

DisplayNext ==
    \/ \E entries \in DisplayEntries : generate_fizzbuzz(entries[1], entries[2])
    \/ RunCallback
    \/ WorkerQueuesClear
    \/ WorkerCallsBatch
    \/ WorkerIterates
    \/ WorkerBatchReturns
    \/ WorkerQueuesResults
    \/ WorkerQueuesFinalize
    \/ WorkerQueuesComplete

DisplaySpec == GuiInit /\ [][DisplayNext]_vars

-----------------------------------------------------------------------------
(* What the claims are stated with: the conditions of the rule kinds and the
   order of evaluation, written from their definitions and not from the code *)

\* n is prime: at least 2 and without a divisor between 2 and n - 1
PrimeByDefinition(n) == n >= 2 /\ \A d \in 2..(n - 1) : n % d # 0

\* the condition of a validated rule for n: divisor, prime, fibonacci, range
ConditionHolds(b, n, fib) ==
    CASE b.block_type = DIVISOR   -> n % b.properties.divisor = 0
      [] b.block_type = PRIME     -> PrimeByDefinition(n)
      [] b.block_type = FIBONACCI -> n \in fib
      [] b.block_type = RANGE     -> b.properties.start <= n /\ n <= b.properties.end

\* the positions in bs of the rules whose condition holds for n
MatchingPositions(bs, n, fib) ==
    { k \in 1..Len(bs) : ConditionHolds(bs[k], n, fib) }

\* position j comes before position k in the evaluation of bs: a smaller
\* order, or the same order and an earlier place in the list
EvaluatedBefore(bs, j, k) ==
    \/ bs[j].order < bs[k].order
    \/ bs[j].order = bs[k].order /\ j < k

\* the positions S of bs, first evaluated first
RECURSIVE InEvaluationOrder(_, _)
InEvaluationOrder(bs, S) ==
    IF S = {} THEN <<>>
    ELSE LET first == CHOOSE k \in S : \A j \in S \ {k} : EvaluatedBefore(bs, k, j)
         IN  <<first>> \o InEvaluationOrder(bs, S \ {first})

\* the words of the rules at the positions ps, concatenated
RECURSIVE WordsAt(_, _)
WordsAt(bs, ps) ==
    IF ps = <<>> THEN ""
    ELSE bs[Head(ps)].properties.word \o WordsAt(bs, Tail(ps))

DigitChars == <<"0", "1", "2", "3", "4", "5", "6", "7", "8", "9">>

\* the decimal string of n, for -1000 < n < 1000, digit by digit
DecimalString(n) ==
    LET a == IF n < 0 THEN 0 - n ELSE n IN
    (IF n < 0 THEN "-" ELSE "")
    \o (IF a >= 100 THEN DigitChars[(a \div 100) + 1] ELSE "")
    \o (IF a >= 10 THEN DigitChars[((a \div 10) % 10) + 1] ELSE "")
    \o DigitChars[(a % 10) + 1]

\* the place of the rule with this id in a list of rules (0: not in it)
PlaceOf(id, bs) ==
    IF \E k \in 1..Len(bs) : bs[k].id = id
    THEN CHOOSE k \in 1..Len(bs) : bs[k].id = id
    ELSE 0

\* process_number has returned a result for the caller's rule list
Evaluated == call.fn = "process_number" /\ call.ret.raised = "none"

-----------------------------------------------------------------------------
(* The claims *)

\* the rules of the example: divisor 3 "A" and divisor 5 "B", with these orders
ExampleAB(orderA, orderB) ==
    << RuleBlock("b1", DIVISOR, "A", [divisor |-> 3, word |-> "A"], orderA),
       RuleBlock("b2", DIVISOR, "B", [divisor |-> 5, word |-> "B"], orderB) >>

\* C1: the text process_number returns is the words of the matching rules
\* concatenated in ascending order of their order field, not in list
\* position, and the decimal string of the number when no rule matches; of
\* two matching rules with different order values the one with the smaller
\* value comes first, so that swapping the two values reverses their words
\* (divisor 3 "A" order 1 with divisor 5 "B" order 0 gives "BA" at 15, and
\* "AB" with the two values swapped).
C1_TextInAscendingOrder ==
    /\ Evaluated =>
          LET n  == call.number
              M  == MatchingPositions(blocks, n, call.fib)
              mb == call.ret.matching_blocks
          IN  /\ M = {} => call.ret.text = DecimalString(n)
              /\ M # {} =>
                    call.ret.text = WordsAt(blocks, InEvaluationOrder(blocks, M))
              /\ \A j, k \in M :
                    blocks[j].order < blocks[k].order =>
                       /\ PlaceOf(blocks[j].id, mb) > 0
                       /\ PlaceOf(blocks[j].id, mb) < PlaceOf(blocks[k].id, mb)
    /\ process_number(15, ExampleAB(1, 0), {}).text = "BA"
    /\ process_number(15, ExampleAB(0, 1), {}).text = "AB"

\* two rules match, the second of the list has the smaller order, and its
\* word is first in the text
C1_Witness ==
    /\ Evaluated
    /\ Len(blocks) = 2
    /\ blocks[1].properties.word = "Fizz" /\ blocks[2].properties.word = "Buzz"
    /\ blocks[1].order > blocks[2].order
    /\ call.number = 15
    /\ call.ret.text = "BuzzFizz"

\* C2: for a validated rule list, matching_blocks holds exactly the rules
\* whose condition holds for the number (divisor: n mod divisor = 0; prime:
\* n is prime; fibonacci: n is in the supplied set; range: start <= n <= end),
\* each of them once and no other rule.
C2_MatchingBlocksExact ==
    (Evaluated /\ ValidRuleList(blocks)) =>
       LET mb == call.ret.matching_blocks
           M  == MatchingPositions(blocks, call.number, call.fib)
       IN  /\ \A k \in 1..Len(blocks) :
                 Cardinality({ j \in 1..Len(mb) : mb[j] = blocks[k] })
                    = IF k \in M THEN 1 ELSE 0
           /\ \A j \in 1..Len(mb) : \E k \in 1..Len(blocks) : mb[j] = blocks[k]
           /\ Len(mb) = Cardinality(M)

\* at 15, the end of its range, the range rule is recorded, with a divisor
\* rule that matches too, and a prime rule that does not match is left out
C2_Witness ==
    /\ Evaluated
    /\ call.number = 15
    /\ Len(blocks) = 3
    /\ Len(call.ret.matching_blocks) = 2
    /\ \E k \in 1..3 : blocks[k].block_type = PRIME
    /\ \E j \in 1..2 : call.ret.matching_blocks[j].block_type = RANGE
    /\ \E j \in 1..2 : call.ret.matching_blocks[j].block_type = DIVISOR

\* C3: the rules are evaluated in ascending order of their order values, which
\* need not be contiguous, and rules with the same order value are evaluated
\* in their relative position in the list: matching_blocks, and with it the
\* text, follows that order.
C3_AscendingAndStable ==
    Evaluated =>
       LET mb == call.ret.matching_blocks IN
       /\ \A j \in 1..Len(mb) : PlaceOf(mb[j].id, blocks) > 0
       /\ \A j \in 1..(Len(mb) - 1) :
             EvaluatedBefore(blocks, PlaceOf(mb[j].id, blocks),
                             PlaceOf(mb[j + 1].id, blocks))
       /\ mb # <<>> =>
             call.ret.text
                = WordsAt(blocks, [j \in 1..Len(mb) |-> PlaceOf(mb[j].id, blocks)])

\* three rules match: the first and the third of the list share the order 2,
\* the second has the order 0 (no rule has the order 1), and the text has the
\* second rule's word first and the other two in their list order
C3_Witness ==
    /\ Evaluated
    /\ Len(blocks) = 3
    /\ blocks[1].order = 2 /\ blocks[2].order = 0 /\ blocks[3].order = 2
    /\ blocks[1].properties.word = "Fizz"
    /\ blocks[2].properties.word = "A"
    /\ blocks[3].properties.word = "Buzz"
    /\ call.ret.text = "AFizzBuzz"
    /\ Len(call.ret.matching_blocks) = 3

\* the tag the claim gives a single matching rule
TagOfSingle(b) ==
    CASE b.block_type = DIVISOR /\ b.properties.word = "Fizz" -> "Fizz"
      [] b.block_type = DIVISOR /\ b.properties.word = "Buzz" -> "Buzz"
      [] b.block_type = DIVISOR /\ b.properties.word \notin {"Fizz", "Buzz"}
                                    -> "divisor_custom"
      [] b.block_type = PRIME       -> "Prime"
      [] b.block_type = FIBONACCI   -> "Fib"
      [] b.block_type = RANGE       -> "range_custom"

\* C4: when no rule matches the tag is 'number'; when exactly one rule
\* matches the tag is that rule's: 'Fizz' or 'Buzz' for a divisor rule with
\* exactly that word, 'divisor_custom' for any other divisor rule, 'Prime',
\* 'Fib', 'range_custom' for a prime, fibonacci, range rule, whatever its word.
C4_TagOfNoneAndOfOne ==
    (Evaluated /\ ValidRuleList(blocks)) =>
       LET M == MatchingPositions(blocks, call.number, call.fib) IN
       /\ M = {} => call.ret.result_type = "number"
       /\ Cardinality(M) = 1 =>
             call.ret.result_type = TagOfSingle(blocks[CHOOSE k \in M : TRUE])

\* a prime rule with the word "Fizz" is the only rule that matches, among
\* three, and the tag is 'Prime'
C4_Witness ==
    /\ Evaluated
    /\ Len(blocks) = 3
    /\ Len(call.ret.matching_blocks) = 1
    /\ call.ret.matching_blocks[1].block_type = PRIME
    /\ call.ret.text = "Fizz"
    /\ call.ret.result_type = "Prime"

\* C5: when two or more rules match, the tag is 'FizzBuzz' if and only if a
\* divisor rule with word "Fizz" and a divisor rule with word "Buzz" are among
\* them, however many other rules match, and 'combination' otherwise.
C5_TagOfSeveral ==
    (Evaluated /\ ValidRuleList(blocks)) =>
       LET M == MatchingPositions(blocks, call.number, call.fib)
           DivisorWith(w) == \E k \in M : /\ blocks[k].block_type = DIVISOR
                                           /\ blocks[k].properties.word = w
       IN  Cardinality(M) >= 2 =>
              /\ call.ret.result_type = "FizzBuzz"
                    <=> (DivisorWith("Fizz") /\ DivisorWith("Buzz"))
              /\ call.ret.result_type \in {"FizzBuzz", "combination"}

\* three rules match, the divisor rules "Fizz" and "Buzz" and a range rule,
\* and the tag is 'FizzBuzz'
C5_Witness ==
    /\ Evaluated
    /\ Len(call.ret.matching_blocks) = 3
    /\ \E j \in 1..3 : call.ret.matching_blocks[j].block_type = RANGE
    /\ call.ret.result_type = "FizzBuzz"

\* the last result the batch loop has appended
LastResult == results[Len(results)]

\* C6: with the rules divisor 3 "Fizz" order 0 and divisor 5 "Buzz" order 1,
\* every n >= 1 divisible by 15 gives the text "FizzBuzz" and the tag
\* 'FizzBuzz', by 3 and not 5 "Fizz" and 'Fizz', by 5 and not 3 "Buzz" and
\* 'Buzz', and every other n its decimal string and the tag 'number'.
C6_ClassicFizzBuzz ==
    (blocks = DefaultBlocks /\ results # <<>>) =>
       LET n == b_start + Len(results) - 1
           r == LastResult
       IN  /\ n >= 1
           /\ r.number = n
           /\ n % 15 = 0 => r.text = "FizzBuzz" /\ r.result_type = "FizzBuzz"
           /\ (n % 3 = 0 /\ n % 5 # 0) => r.text = "Fizz" /\ r.result_type = "Fizz"
           /\ (n % 5 = 0 /\ n % 3 # 0) => r.text = "Buzz" /\ r.result_type = "Buzz"
           /\ (n % 3 # 0 /\ n % 5 # 0) =>
                 r.text = DecimalString(n) /\ r.result_type = "number"

\* the four results of the example, for 7, 9, 10 and 15, in a run from 1 on
C6_Witness ==
    /\ blocks = DefaultBlocks
    /\ b_start = 1
    /\ Len(results) = 15
    /\ results[7].text = "7" /\ results[7].result_type = "number"
    /\ results[9].text = "Fizz" /\ results[9].result_type = "Fizz"
    /\ results[10].text = "Buzz" /\ results[10].result_type = "Buzz"
    /\ results[15].text = "FizzBuzz" /\ results[15].result_type = "FizzBuzz"

\* C7: is_prime(n) is true exactly when n >= 2 and no d with 2 <= d < n
\* divides n, for every n of the range, n <= 0 included: false for n < 2,
\* true for 2, false for every even n > 2.
C7_IsPrimeExact ==
    call.fn = "is_prime" =>
       /\ call.ret = PrimeByDefinition(call.n)
       /\ call.n < 2 => call.ret = FALSE
       /\ call.n = 2 => call.ret = TRUE
       /\ (call.n > 2 /\ call.n % 2 = 0) => call.ret = FALSE

\* is_prime(49) is false: the only odd divisor is floor(sqrt(49)) itself
C7_Witness == call.fn = "is_prime" /\ call.n = 49 /\ call.ret = FALSE

\* x is a Fibonacci number (1, 1, 2, 3, 5, 8, ...): 5x^2 + 4 or 5x^2 - 4 is a
\* square, of a root between 2x and 3x
IsFibonacciNumber(x) ==
    x >= 1 /\ \E r \in (2 * x)..(3 * x) :
                 r * r = 5 * x * x + 4 \/ r * r = 5 * x * x - 4

\* C8: generate_fibonacci_set(maxValue) returns exactly the Fibonacci numbers
\* (1, 1, 2, 3, 5, 8, ...) that are <= maxValue: the empty set when
\* maxValue < 1, {1} for 1, {1, 2, 3, 5, 8} for 10, and no element greater
\* than maxValue.
C8_FibonacciSetExact ==
    call.fn = "generate_fibonacci_set" =>
       /\ call.ret = { x \in 1..call.max_value : IsFibonacciNumber(x) }
       /\ call.max_value < 1 => call.ret = {}
       /\ call.max_value = 1 => call.ret = {1}
       /\ call.max_value = 10 => call.ret = {1, 2, 3, 5, 8}
       /\ \A x \in call.ret : x <= call.max_value

\* generate_fibonacci_set(34), a Fibonacci number itself, returns the eight
\* numbers up to 34
C8_Witness ==
    /\ call.fn = "generate_fibonacci_set"
    /\ call.max_value = 34
    /\ call.ret = {1, 2, 3, 5, 8, 13, 21, 34}

\* the arguments of the batch call do not pass its validation
InvalidBatchCall == blocks = <<>> \/ b_start >= b_end \/ b_start < 1

\* C9: generate_fizzbuzz_batch called with an empty rule list, with
\* start >= end or with start < 1 fails with a validation error before it
\* evaluates a number: it returns no results and never calls the progress
\* callback.
C9_InvalidCallFails ==
    (pc # "idle" /\ InvalidBatchCall) =>
       /\ pc = "raised"
       /\ error \in { "ValueError: No blocks defined",
                      "ValueError: Start must be less than end",
                      "ValueError: Start must be at least 1" }
       /\ i = 0
       /\ results = <<>>
       /\ returned = <<>>
       /\ progress_calls = <<>>

\* a call with a callback, rules and start = end = 2 has raised
C9_Witness ==
    /\ pc = "raised"
    /\ blocks # <<>>
    /\ has_callback
    /\ b_start = 2 /\ b_end = 2
    /\ error = "ValueError: Start must be less than end"

\* C10: a valid call (1 <= start < end, validated rules, not empty) returns,
\* and what it returns is end - start + 1 results of which the k-th (from 0)
\* has the number start + k: ascending, without gap, duplicate or reordering,
\* start and end included.
C10_OneResultPerNumber ==
    (~InvalidBatchCall /\ ValidRuleList(blocks)) =>
       /\ pc # "raised"
       /\ \A k \in 1..Len(results) : results[k].number = b_start + k - 1
       /\ Len(results) <= b_end - b_start + 1
       /\ pc = "returned" =>
             /\ Len(returned) = b_end - b_start + 1
             /\ \A k \in 1..Len(returned) : returned[k].number = b_start + k - 1
             /\ returned[1].number = b_start
             /\ returned[Len(returned)].number = b_end

\* the call for 1..100 has returned 100 results, the first for 1 and the last
\* for 100
C10_Witness ==
    /\ pc = "returned"
    /\ b_start = 1 /\ b_end = 100
    /\ Len(returned) = 100
    /\ returned[1].number = 1
    /\ returned[100].number = 100

\* the counts, among the first done numbers of a run of total numbers, after
\* which the claim has a notification
NotifiedCounts(done, total) == { k \in 1..done : k % 50 = 0 \/ k = total }

\* the counts at which the callback was called, in the order of the calls
CallCounts == [j \in 1..Len(progress_calls) |-> progress_calls[j].after]

\* C11: in a valid run with a callback, the callback has been called after the
\* k-th number exactly when k is a multiple of 50 or k is the count of the
\* range, once for each such k and in ascending order; so no more than 50
\* numbers lie between two calls, or before the first, and a run that has
\* returned was notified of its last number exactly once, also when the count
\* is a multiple of 50. Without a callback nothing is called.
C11_NotifiedEveryFiftyAndAtEnd ==
    /\ (pc \in {"loop", "returned"} /\ has_callback) =>
          LET total == b_end - b_start + 1
              n == Len(progress_calls)
          IN  /\ { CallCounts[j] : j \in 1..n } = NotifiedCounts(i, total)
              /\ \A j \in 1..(n - 1) :
                    /\ CallCounts[j] < CallCounts[j + 1]
                    /\ CallCounts[j + 1] - CallCounts[j] <= 50
              /\ i - (IF n = 0 THEN 0 ELSE CallCounts[n]) < 50
              /\ pc = "returned" =>
                    /\ n >= 1
                    /\ CallCounts[n] = total
                    /\ Cardinality({ j \in 1..n : CallCounts[j] = total }) = 1
    /\ ~has_callback => progress_calls = <<>>

\* the run for 1..100 with a callback has returned: it was notified after the
\* 50th number and after the 100th, the last one, and not twice for that one
C11_Witness ==
    /\ pc = "returned"
    /\ has_callback
    /\ b_start = 1 /\ b_end = 100
    /\ CallCounts = <<50, 100>>

\* the value given to the j-th call of the callback, a fraction num / den
CallValue(j) == progress_calls[j].progress

\* C12: in a valid run with a callback, the value given to the callback after
\* the k-th number is k / (end - start + 1) * 100; the values of a run
\* increase strictly, each is above 0 and at most 100, and the last one of a
\* run that has returned is 100. A run returns only when every number of the
\* range has a result and, with a callback, after that last call.
C12_PercentageOfRange ==
    /\ (pc \in {"loop", "returned"} /\ has_callback) =>
          LET total == b_end - b_start + 1
              n == Len(progress_calls)
          IN  /\ \A j \in 1..n :
                    /\ CallValue(j).den > 0
                    /\ CallValue(j).num * total
                          = progress_calls[j].after * 100 * CallValue(j).den
                    /\ CallValue(j).num > 0
                    /\ CallValue(j).num <= 100 * CallValue(j).den
              /\ \A j \in 1..(n - 1) :
                    CallValue(j).num * CallValue(j + 1).den
                       < CallValue(j + 1).num * CallValue(j).den
              /\ pc = "returned" =>
                    /\ n >= 1
                    /\ CallValue(n).num = 100 * CallValue(n).den
                    /\ progress_calls[n].after = total
    /\ (pc = "returned" /\ ~InvalidBatchCall) =>
          /\ i = b_end - b_start + 1
          /\ Len(results) = b_end - b_start + 1
          /\ returned = results

\* the run for 1..101 with a callback has returned: the callback was given
\* 5000/101 after the 50th number, 10000/101 after the 100th and 100 after the
\* 101st
C12_Witness ==
    /\ pc = "returned"
    /\ has_callback
    /\ b_start = 1 /\ b_end = 101
    /\ Len(progress_calls) = 3
    /\ CallValue(1) = [num |-> 5000, den |-> 101]
    /\ CallValue(2) = [num |-> 10000, den |-> 101]
    /\ CallValue(3) = [num |-> 10100, den |-> 101]

\* the Fibonacci numbers, without the bound of a run (as far as twice the
\* largest number a run evaluates)
FibonacciNumbers == { x \in 1..(2 * MaxEnd) : IsFibonacciNumber(x) }

\* C13: a valid run has, from its first number to its last, one Fibonacci set:
\* the Fibonacci numbers <= end when a rule of the list is a fibonacci rule,
\* the empty set otherwise; and the result of each number n of the run is the
\* result process_number gives for n and the rules with all the Fibonacci
\* numbers as its set, so a fibonacci rule matches n exactly when n is a
\* Fibonacci number.
C13_FibonacciSetOnceAndEnough ==
    (pc \in {"loop", "returned"} \/ (pc = "raised" /\ error \in Exceptions)) =>
       /\ fibonacci_set =
             IF \E k \in 1..Len(blocks) : blocks[k].block_type = FIBONACCI
             THEN { x \in FibonacciNumbers : x <= b_end }
             ELSE {}
       /\ results # <<>> =>
             /\ LastResult = process_number(b_start + Len(results) - 1, blocks,
                                            FibonacciNumbers)
             /\ \A k \in 1..Len(LastResult.matching_blocks) :
                   LastResult.matching_blocks[k].block_type = FIBONACCI
                      => IsFibonacciNumber(LastResult.number)
             /\ (/\ IsFibonacciNumber(LastResult.number)
                 /\ \E k \in 1..Len(blocks) : blocks[k].block_type = FIBONACCI)
                   => \E k \in 1..Len(LastResult.matching_blocks) :
                         LastResult.matching_blocks[k].block_type = FIBONACCI

\* the run for 1..13 with a fibonacci rule has returned: its set is
\* {1, 2, 3, 5, 8, 13} and 13, the end of the range, matched the fibonacci rule
C13_Witness ==
    /\ pc = "returned"
    /\ b_start = 1 /\ b_end = 13
    /\ fibonacci_set = {1, 2, 3, 5, 8, 13}
    /\ LastResult.number = 13
    /\ LastResult.text = "PrimeTeenFib"

\* C14: no step of a batch run, the calls of process_number in it included,
\* changes the caller's rule list: the same rules at the same places, each
\* with the fields it had, although the rules are evaluated in another order
\* than the list has them; and no step of the loop changes the Fibonacci set
\* that process_number is given.
C14_InputsNotModified ==
    [][ /\ blocks' = blocks
        /\ pc = "loop" => fibonacci_set' = fibonacci_set ]_vars

\* a run has returned results for a list that is not in ascending order (the
\* rules of order 2, 0, 1), with a Fibonacci set that is not empty
C14_Witness ==
    /\ pc = "returned"
    /\ Len(returned) >= 2
    /\ Len(blocks) = 3
    /\ blocks[1].order = 2 /\ blocks[2].order = 0 /\ blocks[3].order = 1
    /\ fibonacci_set # {}

\* C15: a second run on the same rule list gives, for every number that the
\* first run evaluated with the same end of range, the result the first run
\* gave, whatever was evaluated between the two; and a second run of the same
\* range ends as the first did, with an equal list of results or the same
\* error: nothing of the first run is left in the second.
C15_SecondRunEqualsFirst ==
    (call.fn = "generate_fizzbuzz_batch" /\ call.end = b_end) =>
       /\ \A k \in 1..Len(results) : \A j \in 1..Len(call.results) :
             call.results[j].number = results[k].number
                => call.results[j] = results[k]
       /\ (call.start = b_start /\ pc \in {"returned", "raised"}) =>
             /\ pc = call.outcome
             /\ returned = call.ret
             /\ error = call.error

\* the runs 1..5 and, after it, 2..5 on the rules of every kind have both
\* returned: the 5 of the second run is its fourth result and was the fifth
\* of the first
C15_Witness ==
    /\ call.fn = "generate_fizzbuzz_batch"
    /\ call.start = 1 /\ call.end = 5
    /\ call.outcome = "returned"
    /\ pc = "returned"
    /\ b_start = 2 /\ b_end = 5
    /\ returned[4].text = "PrimeFib"
    /\ call.ret[5] = returned[4]

\* a rule of the kind and the word of block, with another id, another name,
\* another divisor and other range bounds
Disguised(block) ==
    LET props == block.properties IN
    [block EXCEPT
       !.id = "x-" \o block.id,
       !.name = "renamed",
       !.properties =
          IF block.block_type = DIVISOR
          THEN [props EXCEPT !.divisor = props.divisor + 7]
          ELSE IF block.block_type = RANGE
          THEN [props EXCEPT !.start = props.start - 1, !.end = props.end + 1]
          ELSE props]

\* C16: the tag of a result is the tag of any matching rules of the same
\* kinds and words, whatever their ids, names, divisors and range bounds.
\* Divisor 2 "Fizz" and divisor 7 "Buzz" give 14 the tag 'FizzBuzz'; a divisor
\* rule of any name and divisor with the word "Fizz", matching alone, gives
\* 'Fizz'.
C16_TagOfKindsAndWords ==
    /\ Evaluated =>
          LET mb == call.ret.matching_blocks IN
          get_result_type([k \in 1..Len(mb) |-> mb[k].properties.word],
                          [k \in 1..Len(mb) |-> Disguised(mb[k])])
             = call.ret.result_type
    /\ process_number(14,
          << RuleBlock("p", DIVISOR, "Two", [divisor |-> 2, word |-> "Fizz"], 0),
             RuleBlock("q", DIVISOR, "Seven", [divisor |-> 7, word |-> "Buzz"], 1) >>,
          {}).result_type = "FizzBuzz"
    /\ process_number(22,
          << RuleBlock("p", DIVISOR, "Eleven", [divisor |-> 11, word |-> "Fizz"], 0),
             RuleBlock("q", DIVISOR, "Seven", [divisor |-> 7, word |-> "Buzz"], 1) >>,
          {}).result_type = "Fizz"

\* 15 was evaluated with the divisor rules named "Fizz" and "Buzz" and a third
\* rule that did not match: the tag is 'FizzBuzz', as it is for the rules
\* under other names
C16_Witness ==
    /\ Evaluated
    /\ call.number = 15
    /\ Len(blocks) = 3
    /\ Len(call.ret.matching_blocks) = 2
    /\ call.ret.matching_blocks[1].name = "Fizz"
    /\ call.ret.matching_blocks[2].name = "Buzz"
    /\ call.ret.result_type = "FizzBuzz"

\* the evaluation of n with the rules and the set of the run fails
Fails(n) == process_number(n, blocks, fibonacci_set).raised # "none"

\* C17: in a run that passed the validation, a failure of the evaluation of a
\* number (a key that is read and missing, a divisor 0) ends the run at that
\* number with that error: every number before it was evaluated, none after
\* it, and nothing is returned. A run that goes on or returns has a result for
\* each number so far and none of them failed: no number is left out.
C17_FailureEndsTheRun ==
    (pc # "idle" /\ ~InvalidBatchCall) =>
       /\ Len(results) = i
       /\ (pc = "raised") =>
             /\ error \in Exceptions
             /\ Fails(b_start + i)
             /\ error = process_number(b_start + i, blocks, fibonacci_set).raised
             /\ returned = <<>>
       /\ results # <<>> =>
             /\ LastResult.number = b_start + i - 1
             /\ ~Fails(LastResult.number)
       /\ pc = "returned" => returned = results

\* the run 1..9 on the list with the range rule that lacks 'end' has failed at
\* 4, where the rule first reads 'end': three numbers were evaluated, nothing
\* is returned
C17_Witness ==
    /\ pc = "raised"
    /\ error = "KeyError"
    /\ b_start = 1 /\ b_end = 9
    /\ i = 3
    /\ Len(results) = 3
    /\ returned = <<>>

\* C18: while the worker thread is inside generate_fizzbuzz_batch (its loop is
\* running), no step changes the list the batch was given nor a field of a
\* rule in it: blocks, which is what the batch reads in that list, stays as
\* it is.
C18_RulesFrozenDuringBatch ==
    [][ pc = "loop" => blocks' = blocks ]_vars

\* the ids of the rules of a list, in the order of the list
IdsOf(h, addrs) == [k \in 1..Len(addrs) |-> h[addrs[k]].id]

\* a step that is delete_block(id) takes out of self.blocks the one rule with
\* that id: the objects left are those that were there, in the order they had
DeleteRemovesExactlyTheId ==
    \A a \in 1..Len(heap) :
       delete_block(heap[a].id) =>
          LET gone == { k \in 1..Len(self_blocks) :
                          heap[self_blocks[k]].id = heap[a].id }
              NotGone(x) == heap[x].id # heap[a].id
          IN  /\ Cardinality(gone) = 1
              /\ Len(self_blocks') = Len(self_blocks) - 1
              /\ self_blocks' = SelectSeq(self_blocks, NotGone)
              /\ \A k \in 1..Len(self_blocks') :
                    heap'[self_blocks'[k]].id # heap[a].id

\* C19, as the claim has it: no step writes a field of an existing RuleBlock
\* object (a rule changes only by a new object in its place), and
\* delete_block(id) removes exactly the rule with the id and keeps the others
\* in their order.
C19_NoFieldWrittenInPlace ==
    [][ /\ \A a \in 1..Len(heap) : heap'[a] = heap[a]
        /\ DeleteRemovesExactlyTheId ]_vars

\* C19, amended: the only field of an existing RuleBlock object that a step
\* writes is its order, and only a step that takes a rule out or moves one
\* does (reorder_blocks): id, kind, name and properties of an object never
\* change, and edit_block puts a new object in the place of the old one.
\* delete_block(id) removes exactly the rule with the id and keeps the others
\* in their order.
C19_OnlyOrderWrittenInPlace ==
    [][ /\ \A a \in 1..Len(heap) :
              /\ heap'[a] = [heap[a] EXCEPT !.order = heap'[a].order]
              /\ heap'[a].order # heap[a].order =>
                    /\ Len(heap') = Len(heap)
                    /\ \E k \in 1..Len(self_blocks') : self_blocks'[k] = a
                    /\ self_blocks' # self_blocks
        /\ DeleteRemovesExactlyTheId ]_vars

\* the rule Fizz was deleted: Buzz, the same object, is alone in the list and
\* its order was written from 1 to 0
C19_Witness ==
    /\ Len(heap) = 2
    /\ self_blocks = <<2>>
    /\ heap[2].id = "b2"
    /\ heap[2].name = "Buzz"
    /\ heap[2].order = 0

\* C20: a step of the worker thread writes nothing of the window (the display,
\* the progress variable, the heatmap, the error dialog, is_generating, the
\* Generate button): all it does to the window is to add a callback at the
\* end of the queue of root.after. What is written to the window is written
\* by a step of the UI thread: generate_fizzbuzz itself, or the oldest queued
\* callback being run.
C20_WorkerOnlyQueuesCallbacks ==
    [][ /\ WorkerStep =>
              /\ displayVars' = displayVars
              /\ Len(after_queue') >= Len(after_queue)
              /\ SubSeq(after_queue', 1, Len(after_queue)) = after_queue
        /\ displayVars' # displayVars =>
              \/ /\ after_queue # <<>>
                 /\ after_queue' = Tail(after_queue)
                 /\ RunCallback
              \/ \E entries \in GuiEntries :
                    generate_fizzbuzz(entries[1], entries[2]) ]_vars

\* a generation has run to its end: the thread is gone, every callback it
\* queued has run, and the window shows the lines, the heatmap, the progress
\* 100, and the button enabled again
C20_Witness ==
    /\ ops >= 1
    /\ wpc = "none"
    /\ after_queue = <<>>
    /\ is_generating = FALSE
    /\ generate_btn = "normal"
    /\ progress_var = [num |-> 100, den |-> 1]
    /\ results_text = <<"   1: 1", "   2: 2", "   3: Fizz">>
    /\ Len(heatmap) = 3

\* the rule at each place of self.blocks has the place (from 0) as its order
OrderIsPosition ==
    \A k \in 1..Len(self_blocks) : heap[self_blocks[k]].order = k - 1

\* the set of the ids of the rules of a list
IdSetOf(h, addrs) == { h[addrs[k]].id : k \in 1..Len(addrs) }

\* C21: from the two default rules on, after every operation on the rules
\* (add_block, edit_block, delete_block, move_block, clear_all_blocks) the
\* rule at place k of the list has the order k: the orders are 0, 1, 2, ...
\* without gap or repeat and sorting by order gives the list as it is. A
\* move_block of the first rule up or of the last rule down changes nothing,
\* and every move_block leaves the list with the ids it had.
C21_OrderIsPosition ==
    /\ OrderIsPosition
    /\ [][ /\ OrderIsPosition'
           /\ SortedByOrder(View(heap', self_blocks')) = View(heap', self_blocks')
           /\ \A k \in 1..Len(self_blocks), direction \in {-1, 1} :
                 move_block(heap[self_blocks[k]].id, direction) =>
                    /\ IdSetOf(heap', self_blocks') = IdSetOf(heap, self_blocks)
                    /\ Len(self_blocks') = Len(self_blocks)
                    /\ ((k = 1 /\ direction = -1)
                          \/ (k = Len(self_blocks) /\ direction = 1)) =>
                          (self_blocks' = self_blocks /\ heap' = heap) ]_vars

\* a third rule was added, moved up, and Fizz deleted: the new rule is first
\* with order 0 and Buzz second with order 1
C21_Witness ==
    /\ Len(heap) = 3
    /\ self_blocks = <<3, 2>>
    /\ heap[3].order = 0
    /\ heap[2].order = 1
    /\ heap[2].id = "b2"

\* C22: never more than one worker thread, so never more than one call of
\* generate_fizzbuzz_batch under way. A worker exists only while is_generating
\* is set; one is started only by a step that finds is_generating unset and
\* sets it, with start < end, start >= 1 and a rule in the list; and
\* is_generating is unset only by generation_complete run from the queue,
\* when the worker that queued it has left its batch call and ended.
C22_OneBatchAtATime ==
    /\ threads = 0
    /\ [][ /\ threads' <= 1
           /\ (wpc' # "none" \/ pc' # "idle") =>
                 (is_generating' /\ threads' = 1)
           /\ threads' > threads =>
                 /\ ~is_generating
                 /\ is_generating'
                 /\ w_start' < w_end'
                 /\ w_start' >= 1
                 /\ self_blocks # <<>>
           /\ (is_generating /\ ~is_generating') =>
                 /\ after_queue # <<>>
                 /\ Head(after_queue).fn = "generation_complete"
                 /\ RunCallback
                 /\ wpc = "none"
                 /\ pc = "idle"
                 /\ threads = 0 ]_vars

\* a second generation was started when the first had completed: one worker,
\* at its start, and the lines of the first run still on display
C22_Witness ==
    /\ ops = 2
    /\ threads = 1
    /\ is_generating
    /\ wpc = "start"
    /\ after_queue = <<>>
    /\ results_text # <<>>

\* a generation that was started completes: is_generating is unset again and
\* the Generate button enabled
GenerationCompletes ==
    is_generating ~> (~is_generating /\ generate_btn = "normal")

\* the error of a batch that raised is reported: the callback queued for it
\* shows its message when it is run
ErrorIsReported ==
    [][ (/\ after_queue # <<>>
         /\ Head(after_queue).fn = "showerror"
         /\ after_queue' = Tail(after_queue))
           => last_error' = Head(after_queue).message ]_vars

\* no line of a run that raised is displayed: no update of the display and
\* no heatmap is queued with the error of the run, and the display is empty
\* when that error is at the head of the queue
NoLineOfFailedRun ==
    [][ \A j \in 1..Len(after_queue) :
           after_queue[j].fn = "showerror" =>
              /\ \A k \in 1..Len(after_queue) :
                    after_queue[k].fn \notin {"update_results_display",
                                              "finalize_generation"}
              /\ j = 1 => results_text = <<>> ]_vars

\* C23: with the worker thread and the event loop running, a generation that
\* was started completes (generation_complete runs, is_generating is unset,
\* the button enabled), whether the batch returned or raised; when it raised,
\* the error is reported and no line of the run is displayed.
C23_GenerationCompletesAndReports ==
    /\ GenerationCompletes
    /\ ErrorIsReported
    /\ NoLineOfFailedRun

\* the line of the number n with the rules Fizz (3) and Buzz (5): the number
\* right-aligned in four columns, a colon, the text
ExpectedLine(n) ==
    (IF n < 10 THEN "   " ELSE IF n < 100 THEN "  " ELSE " ") \o ToString(n)
    \o ": " \o
    (IF n % 15 = 0 THEN "FizzBuzz"
     ELSE IF n % 3 = 0 THEN "Fizz"
     ELSE IF n % 5 = 0 THEN "Buzz"
     ELSE ToString(n))

\* the lines of a run with the entries e: every number from start to end,
\* once, ascending
ExpectedLines(e) == [k \in 1..(e[2] - e[1] + 1) |-> ExpectedLine(e[1] + k - 1)]

IsPrefix(s, t) == Len(s) <= Len(t) /\ s = SubSeq(t, 1, Len(s))

\* C24: callbacks run in the order they were queued. In a generation that
\* completes normally the display is cleared first; then the lines are
\* appended in chunks of at most 50, every number from start to end once and
\* ascending; then the heatmap is set; generation_complete runs last. A
\* generation starts only when the callbacks of the one before have all run,
\* and what is displayed is at any time the lines of a single run, in order.
C24_DisplayedInOrder ==
    /\ results_text = <<>>
    /\ [][ /\ \E e \in DisplayEntries : IsPrefix(results_text', ExpectedLines(e))
           /\ (~is_generating /\ is_generating') => after_queue = <<>>
           /\ RunCallback =>
                 LET cb == Head(after_queue) IN
                 /\ cb.fn = "clear_display" =>
                       /\ is_generating
                       /\ results_text' = <<>>
                       /\ heatmap' = <<>>
                 /\ cb.fn = "update_results_display" =>
                       /\ heatmap = <<>>
                       /\ Len(cb.r) \in 1..ChunkSize
                       /\ Len(results_text') = Len(results_text) + Len(cb.r)
                       /\ \E e \in DisplayEntries :
                             /\ IsPrefix(results_text, ExpectedLines(e))
                             /\ IsPrefix(results_text', ExpectedLines(e))
                 /\ cb.fn = "finalize_generation" =>
                       /\ heatmap = <<>>
                       /\ \E e \in DisplayEntries :
                             /\ results_text = ExpectedLines(e)
                             /\ Len(heatmap') = Len(results_text)
                             /\ \A k \in 1..Len(heatmap') :
                                   heatmap'[k][1] = e[1] + k - 1
                       /\ results_text' = results_text
                 /\ cb.fn = "generation_complete" =>
                       /\ after_queue' = <<>>
                       /\ wpc = "none"
                       /\ Len(heatmap) = Len(results_text)
                       /\ \E e \in DisplayEntries : results_text = ExpectedLines(e)
                       /\ results_text' = results_text ]_vars

\* the second generation has displayed its 100 lines, in two chunks of 50,
\* in the place of those of the first
C24_Witness ==
    /\ ops = 2
    /\ ~is_generating
    /\ after_queue = <<>>
    /\ results_text = ExpectedLines(<<2, 101>>)
    /\ Len(heatmap) = 100

=============================================================================
